---- MODULE Spec2Model ----
(***************************************************************************)
(* Model of src/agent.py: the AIAgent that discretizes the game            *)
(* observation, counts transitions and rewards, refits the approximate     *)
(* MDP at the end of every simulation, solves it by value iteration and    *)
(* picks actions epsilon-greedily.                                         *)
(*                                                                         *)
(* Numbers that the program holds as floats are modelled exactly, as       *)
(* reduced fractions <<numerator, denominator>> with denominator > 0.      *)
(***************************************************************************)
EXTENDS Integers, Sequences, FiniteSets, TLC

VARIABLES
    n_x,                \* args.n_x, the number of distance buckets
    gamma,              \* self.gamma, a fraction
    tolerance,          \* self.tolerance, a fraction
    eps,                \* self.eps in hundredths (100 is 1.0)
    transition_counts,  \* mdp_data['transition_counts'][s][a][s']
    transition_probs,   \* mdp_data['transition_probs'][s][a][s'], fractions
    reward_counts,      \* mdp_data['reward_counts'][s] = <<sum, visits>>
    reward,             \* mdp_data['reward'][s], fractions
    value,              \* mdp_data['value'][s], fractions
    state,              \* self.state, the observation the agent holds
    action,             \* self.action
    pc,                 \* position of the caller's loop
    branch,             \* branch choose_action took last
    last,               \* arguments and indices of the last recorded transition
    resets,             \* number of reset calls so far
    steps,              \* number of recorded transitions so far
    call                \* arguments and result of the last direct call

vars == <<n_x, gamma, tolerance, eps, transition_counts, transition_probs,
          reward_counts, reward, value, state, action, pc, branch, last,
          resets, steps, call>>

mdp_vars == <<transition_counts, transition_probs, reward_counts, reward, value>>

-----------------------------------------------------------------------------
(* Exact fractions *)

\* Arguments are evaluated once and then bound, so that no operand is
\* computed again each time an operator body mentions it.
Bind1(Op(_), x) == CHOOSE r \in {Op(q) : q \in {x}} : TRUE

Bind2(Op(_, _), x, y) == CHOOSE r \in {Op(q[1], q[2]) : q \in {<<x, y>>}} : TRUE

Abs(x) == IF x < 0 THEN -x ELSE x

RECURSIVE Gcd(_, _)
Gcd(a, b) == IF b = 0 THEN a ELSE Bind2(Gcd, b, a % b)

FracOf(n, d) ==
    IF n = 0 THEN <<0, 1>>
    ELSE LET g == Gcd(Abs(n), d) IN <<n \div g, d \div g>>

Frac(n, d) == Bind2(FracOf, n, d)

Zero == <<0, 1>>

FAddOf(x, y) ==
    IF x[1] = 0 THEN y
    ELSE IF y[1] = 0 THEN x
    ELSE LET g == Gcd(x[2], y[2])
         IN  Frac(x[1] * (y[2] \div g) + y[1] * (x[2] \div g), (x[2] \div g) * y[2])

FAdd(x, y) == Bind2(FAddOf, x, y)

FNegOf(x) == <<-x[1], x[2]>>

FNeg(x) == Bind1(FNegOf, x)

FSub(x, y) == FAdd(x, FNeg(y))

FMulOf(x, y) ==
    IF x[1] = 0 \/ y[1] = 0 THEN Zero
    ELSE LET g1 == Gcd(Abs(x[1]), y[2])
             g2 == Gcd(Abs(y[1]), x[2])
         IN  <<(x[1] \div g1) * (y[1] \div g2), (x[2] \div g2) * (y[2] \div g1)>>

FMul(x, y) == Bind2(FMulOf, x, y)

FAbsOf(x) == <<Abs(x[1]), x[2]>>

FAbs(x) == Bind1(FAbsOf, x)

FLess(x, y) == FSub(x, y)[1] < 0

FMaxOf(x, y) == IF FLess(x, y) THEN y ELSE x

FMax(x, y) == Bind2(FMaxOf, x, y)

-----------------------------------------------------------------------------
(* Module constants of agent.py *)

OBSTACLE_TYPES == [CACTUS_SMALL |-> 0, CACTUS_LARGE |-> 1, PTERODACTYL |-> 2]

TypeNames == {"CACTUS_SMALL", "CACTUS_LARGE", "PTERODACTYL"}

MAX_CONSECUTIVE_OBS == 3

PTERODACTYL_HEIGHTS == <<50, 75, 100>>

\* args.max_dx, the last point of the distance grid
max_dx == 600

Actions == {0, 1, 2}

-----------------------------------------------------------------------------
(* Observations: dino.get_state() gives an empty dict (no obstacle) or a   *)
(* dict with the keys 'type', 'config' and 'dx'.                           *)

Absent == [present |-> FALSE, type |-> "CACTUS_SMALL", config |-> 0, dx |-> 0]

Obstacle(t, c, d) == [present |-> TRUE, type |-> t, config |-> c, dx |-> d]

-----------------------------------------------------------------------------
(* State discretization *)

\* num_states of initialize_mdp_data
NumStatesOf(n) ==
    ((Cardinality(TypeNames) - 1) * MAX_CONSECUTIVE_OBS + Len(PTERODACTYL_HEIGHTS)) * n + 2

num_states == NumStatesOf(n_x)

States == 0 .. (num_states - 1)

\* np.argmin: the 0-based position of the first minimum of a sequence
ArgMin(f) ==
    (CHOOSE i \in 1 .. Len(f) :
        /\ \A j \in 1 .. Len(f) : f[i] <= f[j]
        /\ \A j \in 1 .. (i - 1) : f[j] > f[i]) - 1

\* np.linspace(0, max_dx, n) has the points i*max_dx/(n-1), and the single
\* point 0 when n = 1. DxScale(n) is the factor that makes them integers.
DxScale(n) == IF n = 1 THEN 1 ELSE n - 1

dx_s(n) == [i \in 1 .. n |-> (i - 1) * max_dx]

dn_cactus_s == [i \in 1 .. MAX_CONSECUTIVE_OBS |-> i]

dy_pter_s == PTERODACTYL_HEIGHTS

BoolInt(b) == IF b THEN 1 ELSE 0

\* variant: the config bucket is strided by the number of config buckets
StateIndexExprConfigStride(n, st, isFail) ==
    LET obs_type == OBSTACLE_TYPES[st.type]
        j == IF st.type = "PTERODACTYL"
             THEN ArgMin([i \in 1 .. Len(dy_pter_s) |-> Abs(dy_pter_s[i] - st.config)])
             ELSE ArgMin([i \in 1 .. Len(dn_cactus_s) |-> Abs(dn_cactus_s[i] - st.config)])
        k == ArgMin([i \in 1 .. n |-> Abs(dx_s(n)[i] - st.dx * DxScale(n))])
    IN  BoolInt(~isFail) * (obs_type * Len(dy_pter_s) * n + j * Len(dy_pter_s) + k + 2)

StateIndexExpr(n, st, isFail) ==
    LET obs_type == OBSTACLE_TYPES[st.type]
        j == IF st.type = "PTERODACTYL"
             THEN ArgMin([i \in 1 .. Len(dy_pter_s) |-> Abs(dy_pter_s[i] - st.config)])
             ELSE ArgMin([i \in 1 .. Len(dn_cactus_s) |-> Abs(dn_cactus_s[i] - st.config)])
        k == ArgMin([i \in 1 .. n |-> Abs(dx_s(n)[i] - st.dx * DxScale(n))])
    IN  BoolInt(~isFail) * (obs_type * Len(dy_pter_s) * n + j * n + k + 2)

get_closest_state_idx(n, st, isFail) ==
    IF ~st.present THEN 1 ELSE StateIndexExpr(n, st, isFail)

-----------------------------------------------------------------------------
(* The approximate MDP: initialize_mdp_data *)

InitCounts(n) ==
    [s \in 0 .. (NumStatesOf(n) - 1) |->
        [a \in Actions |-> [t \in 0 .. (NumStatesOf(n) - 1) |-> 0]]]

InitProbs(n) ==
    [s \in 0 .. (NumStatesOf(n) - 1) |->
        [a \in Actions |-> [t \in 0 .. (NumStatesOf(n) - 1) |-> Frac(1, NumStatesOf(n))]]]

InitRewardCounts(n) == [s \in 0 .. (NumStatesOf(n) - 1) |-> <<0, 0>>]

InitReward(n) == [s \in 0 .. (NumStatesOf(n) - 1) |-> Zero]

InitValue(n) == [s \in 0 .. (NumStatesOf(n) - 1) |-> Zero]

-----------------------------------------------------------------------------
(* Sums and dot products over the state axis *)

RECURSIVE SumUpTo(_, _)
SumUpTo(f, k) == IF k < 0 THEN 0 ELSE f[k] + SumUpTo(f, k - 1)

\* np.sum(row): the sum of an integer vector indexed by 0 .. Len-1
RowSum(f) == SumUpTo(f, Cardinality(DOMAIN f) - 1)

RECURSIVE DotUpTo(_, _, _)
DotUpTo(p, v, k) ==
    IF k < 0 THEN Zero ELSE FAdd(FMul(p[k], v[k]), DotUpTo(p, v, k - 1))

\* row.dot(value)
Dot(p, v) == DotUpTo(p, v, Cardinality(DOMAIN v) - 1)

RECURSIVE MaxAbsDiffUpTo(_, _, _)
MaxAbsDiffUpTo(u, v, k) ==
    IF k < 0 THEN Zero
    ELSE FMax(FAbs(FSub(u[k], v[k])), MaxAbsDiffUpTo(u, v, k - 1))

\* np.max(np.abs(new_value - value))
MaxDiff(u, v) == MaxAbsDiffUpTo(u, v, Cardinality(DOMAIN v) - 1)

-----------------------------------------------------------------------------
(* get_reward *)

CRASH_REWARD == -1000

ALIVE_REWARD == 1

get_reward(isCrashed) == IF isCrashed THEN CRASH_REWARD ELSE ALIVE_REWARD

-----------------------------------------------------------------------------
(* update_mdp_counts *)

\* variant: the previous state is indexed with the crash flag of the
\* transition recorded before
PrevIndexOfCrash(n, st) == get_closest_state_idx(n, st, last.isCrashed)

PrevIndex(n, st) == get_closest_state_idx(n, st, FALSE)

NewIndex(n, new_state, isCrashed) == get_closest_state_idx(n, new_state, isCrashed)

CountsAfter(tc, s, a, new_s) == [tc EXCEPT ![s][a][new_s] = @ + 1]

\* variant: the visit is not counted
RewardCountsAfterNoVisit(rc, new_s, r) == [rc EXCEPT ![new_s] = <<@[1] + r, @[2]>>]

RewardCountsAfter(rc, new_s, r) == [rc EXCEPT ![new_s] = <<@[1] + r, @[2] + 1>>]

update_mdp_counts(st, a, new_state, r, isCrashed) ==
    LET s == PrevIndex(n_x, st)
        new_s == NewIndex(n_x, new_state, isCrashed)
    IN  /\ transition_counts' = CountsAfter(transition_counts, s, a, new_s)
        /\ reward_counts' = RewardCountsAfter(reward_counts, new_s, r)
        /\ last' = [state |-> st, action |-> a, new_state |-> new_state,
                    reward |-> r, isCrashed |-> isCrashed, s |-> s, new_s |-> new_s]

-----------------------------------------------------------------------------
(* update_mdp_parameters: the refit of the estimates *)

\* variant: the total is smoothed by one
RefitRowSmoothed(counts, old) ==
    LET total == RowSum(counts)
    IN  IF total > 0 THEN [t \in DOMAIN counts |-> Frac(counts[t], total + 1)] ELSE old

RefitRow(counts, old) ==
    LET total == RowSum(counts)
    IN  IF total > 0 THEN [t \in DOMAIN counts |-> Frac(counts[t], total)] ELSE old

RefitProbs(tc, tp) ==
    [s \in DOMAIN tc |-> [a \in Actions |-> RefitRow(tc[s][a], tp[s][a])]]

\* variant: the accumulated reward is not averaged
RefitRewardAtSum(rc_s, old) ==
    IF rc_s[2] > 0 THEN Frac(rc_s[1], 1) ELSE old

RefitRewardAt(rc_s, old) ==
    IF rc_s[2] > 0 THEN Frac(rc_s[1], rc_s[2]) ELSE old

RefitReward(rc, rw) == [s \in DOMAIN rc |-> RefitRewardAt(rc[s], rw[s])]

-----------------------------------------------------------------------------
(* update_mdp_parameters: value iteration *)

\* variant: the duck takes part in the maximum
BellmanAtWithDuck(tp_s, rw_s, v, g) ==
    LET value_nojump == Dot(tp_s[0], v)
        value_jump == Dot(tp_s[1], v)
        value_duck == Dot(tp_s[2], v)
    IN  FAdd(rw_s, FMul(g, FMax(FMax(value_nojump, value_jump), value_duck)))

\* one pass of the while loop body: new_value from the previous value
BellmanAt(tp_s, rw_s, v, g) ==
    LET value_nojump == Dot(tp_s[0], v)
        value_jump == Dot(tp_s[1], v)
    IN  FAdd(rw_s, FMul(g, FMax(value_nojump, value_jump)))

\* the vector is computed once, entry by entry, as numpy does
Evaluated(f) == CHOOSE r \in {g \in {f} : g = g} : TRUE

Sweep(tp, rw, v, g) == Evaluated([s \in DOMAIN v |-> BellmanAt(tp[s], rw[s], v, g)])

Converged(new_value, v, tol) == FLess(MaxDiff(new_value, v), tol)

RECURSIVE ValueIteration(_, _, _, _, _)
ValueIteration(tp, rw, v, g, tol) ==
    CHOOSE r \in
        {IF Converged(new_value, v, tol) THEN new_value
         ELSE ValueIteration(tp, rw, new_value, g, tol) :
            new_value \in {Sweep(tp, rw, v, g)}} : TRUE

\* variant: the counts are cleared once the estimates are refitted
update_mdp_parameters_forgetting ==
    LET tp == RefitProbs(transition_counts, transition_probs)
        rw == RefitReward(reward_counts, reward)
    IN  /\ transition_probs' = tp
        /\ reward' = rw
        /\ value' = ValueIteration(tp, rw, value, gamma, tolerance)
        /\ transition_counts' = InitCounts(n_x)
        /\ UNCHANGED reward_counts

update_mdp_parameters ==
    LET tp == RefitProbs(transition_counts, transition_probs)
        rw == RefitReward(reward_counts, reward)
    IN  /\ transition_probs' = tp
        /\ reward' = rw
        /\ value' = ValueIteration(tp, rw, value, gamma, tolerance)
        /\ UNCHANGED <<transition_counts, reward_counts>>

-----------------------------------------------------------------------------
(* best_action *)

\* variant: a jump must beat a duck strictly
BestOfScoresStrict(score_nothing, score_jump, score_duck) ==
    BoolInt(FLess(score_nothing, score_jump) /\ FLess(score_duck, score_jump)) * 1
    + BoolInt(FLess(score_nothing, score_duck) /\ FLess(score_jump, score_duck)) * 2

BestOfScores(score_nothing, score_jump, score_duck) ==
    BoolInt(FLess(score_nothing, score_jump) /\ ~FLess(score_jump, score_duck)) * 1
    + BoolInt(FLess(score_nothing, score_duck) /\ FLess(score_jump, score_duck)) * 2

best_action(st) ==
    LET s == get_closest_state_idx(n_x, st, FALSE)
    IN  BestOfScores(Dot(transition_probs[s][0], value),
                     Dot(transition_probs[s][1], value),
                     Dot(transition_probs[s][2], value))

-----------------------------------------------------------------------------
(* Bounds of the model *)

\* recorded transitions per behaviour
MaxSteps == 3

\* reset calls per behaviour
MaxResets == 2

\* largest n_x the discretizer is called with
MaxNX == 3

\* recorded transitions behind the estimates value iteration starts from
MaxHistory == 2

\* scores handed to best_action are k/2 for k in -MaxScore .. MaxScore
MaxScore == 2

-----------------------------------------------------------------------------
(* Configuration and environment of the agent's loop *)

\* args.n_x of the training runs modelled
N_X == 1

\* args.gamma and args.tolerance of the training runs modelled
GammaArg == <<1, 2>>

ToleranceArg == <<1001, 1>>

\* self.eps at construction and its growth per reset, in hundredths
EPS_INIT == 100

EPS_STEP == 1

\* np.random.rand() draws from [0, 1): samples in hundredths
RandSamples == {0, 50, 99}

\* the chance of a jump in the exploration branch, in hundredths
EXPLORE_JUMP == 1

\* what dino.get_state() reports during the runs modelled
EnvObservations ==
    {Absent, Obstacle("CACTUS_SMALL", 1, 300)}

NoTransition ==
    [state |-> Absent, action |-> 0, new_state |-> Absent, reward |-> 0,
     isCrashed |-> FALSE, s |-> 1, new_s |-> 1]

NoCall == [op |-> "none"]

initialize_mdp_data(n) ==
    /\ transition_counts = InitCounts(n)
    /\ transition_probs = InitProbs(n)
    /\ reward_counts = InitRewardCounts(n)
    /\ reward = InitReward(n)
    /\ value = InitValue(n)

\* AIAgent.__init__
Construct(n, g, tol, st) ==
    /\ n_x = n
    /\ gamma = g
    /\ tolerance = tol
    /\ eps = EPS_INIT
    /\ initialize_mdp_data(n)
    /\ state = st
    /\ action = 0
    /\ pc = "idle"
    /\ branch = "none"
    /\ last = NoTransition
    /\ resets = 0
    /\ steps = 0
    /\ call = NoCall

Init == \E st \in EnvObservations : Construct(N_X, GammaArg, ToleranceArg, st)

-----------------------------------------------------------------------------
(* The agent's loop: choose_action, set_transition, reset *)

choose_action ==
    /\ pc = "idle"
    /\ steps < MaxSteps
    /\ \E r1 \in RandSamples :
          IF r1 < eps
          THEN /\ action' = best_action(state)
               /\ branch' = "greedy"
          ELSE /\ \E r2 \in RandSamples : action' = BoolInt(r2 < EXPLORE_JUMP)
               /\ branch' = "explore"
    /\ pc' = "acted"
    /\ UNCHANGED <<n_x, gamma, tolerance, eps, mdp_vars, state, last, resets, steps, call>>

set_transition ==
    /\ pc = "acted"
    /\ \E isCrashed \in BOOLEAN, new_state \in EnvObservations :
          /\ update_mdp_counts(state, action, new_state, get_reward(isCrashed), isCrashed)
          /\ state' = new_state
    /\ steps' = steps + 1
    /\ pc' = "idle"
    /\ UNCHANGED <<n_x, gamma, tolerance, eps, transition_probs, reward, value,
                   action, branch, resets, call>>

\* variant: the coefficient decays
NextEpsDecay(e) == e - EPS_STEP

NextEps(e) == e + EPS_STEP

reset ==
    /\ pc = "idle"
    /\ resets < MaxResets
    /\ update_mdp_parameters
    /\ eps' = NextEps(eps)
    /\ resets' = resets + 1
    /\ UNCHANGED <<n_x, gamma, tolerance, state, action, pc, branch, last, steps, call>>

Next == choose_action \/ set_transition \/ reset

Spec == Init /\ [][Next]_vars

-----------------------------------------------------------------------------
(* Direct calls of the pure methods: get_closest_state_idx for every n_x   *)
(* up to MaxNX, and the decision rule of best_action on given scores.      *)

ConfigValues == {-1, 0, 1, 2, 3, 7, 50, 62, 75, 100, 140}

DxValues == {-25, 0, 150, 299, 300, 450, 600, 900}

Observations ==
    {Absent} \cup {Obstacle(t, c, d) : t \in TypeNames, c \in ConfigValues, d \in DxValues}

ScoreValues == {Frac(k, 2) : k \in (0 - MaxScore) .. MaxScore}

InitPure == \E n \in 1 .. MaxNX : Construct(n, GammaArg, ToleranceArg, Absent)

CallIndex ==
    /\ call.op = "none"
    /\ \E st \in Observations, isFail \in BOOLEAN :
          call' = [op |-> "get_closest_state_idx", state |-> st, isFail |-> isFail,
                   ind |-> get_closest_state_idx(n_x, st, isFail),
                   calls |-> 1, first |-> get_closest_state_idx(n_x, st, isFail)]
    /\ UNCHANGED <<n_x, gamma, tolerance, eps, mdp_vars, state, action, pc, branch,
                   last, resets, steps>>

CallIndexAgain ==
    /\ call.op = "get_closest_state_idx"
    /\ call.calls = 1
    /\ call' = [call EXCEPT !.ind = get_closest_state_idx(n_x, call.state, call.isFail),
                            !.calls = 2]
    /\ UNCHANGED <<n_x, gamma, tolerance, eps, mdp_vars, state, action, pc, branch,
                   last, resets, steps>>

CallBestOfScores ==
    /\ call.op = "none"
    /\ \E qn \in ScoreValues, qj \in ScoreValues, qd \in ScoreValues :
          call' = [op |-> "best_action", score_nothing |-> qn, score_jump |-> qj,
                   score_duck |-> qd, action |-> BestOfScores(qn, qj, qd)]
    /\ UNCHANGED <<n_x, gamma, tolerance, eps, mdp_vars, state, action, pc, branch,
                   last, resets, steps>>

NextPure == CallIndex \/ CallIndexAgain \/ CallBestOfScores

SpecPure == InitPure /\ [][NextPure]_vars

-----------------------------------------------------------------------------
(* The while loop of update_mdp_parameters, one sweep per step, on the      *)
(* estimates refitted from up to MaxHistory recorded transitions and from   *)
(* a choice of starting value vectors and tolerances.                       *)

\* what the environment reported when the transitions were recorded
RecordedOutcomes ==
    {[new_state |-> Obstacle("CACTUS_SMALL", 1, 300), isCrashed |-> TRUE],
     [new_state |-> Obstacle("CACTUS_SMALL", 1, 300), isCrashed |-> FALSE],
     [new_state |-> Absent, isCrashed |-> FALSE]}

\* the transitions update_mdp_counts was handed
RecordedTransitions ==
    {[s |-> PrevIndex(N_X, st), a |-> a, new_s |-> NewIndex(N_X, o.new_state, o.isCrashed),
      r |-> get_reward(o.isCrashed)] :
        st \in {Obstacle("CACTUS_SMALL", 1, 300)}, a \in Actions, o \in RecordedOutcomes}

RECURSIVE CountsWithin(_)
CountsWithin(k) ==
    IF k = 0 THEN {[tc |-> InitCounts(N_X), rc |-> InitRewardCounts(N_X)]}
    ELSE CountsWithin(k - 1) \cup
         {[tc |-> CountsAfter(m.tc, tr.s, tr.a, tr.new_s),
           rc |-> RewardCountsAfter(m.rc, tr.new_s, tr.r)] :
             m \in CountsWithin(k - 1), tr \in RecordedTransitions}

StartValues ==
    {InitValue(N_X),
     [s \in 0 .. (NumStatesOf(N_X) - 1) |-> IF s = 0 THEN Frac(-512, 1) ELSE Frac(s, 1)]}

ToleranceArgs == {ToleranceArg, <<20, 1>>}

InitVI ==
    \E m \in CountsWithin(MaxHistory), v \in StartValues, tol \in ToleranceArgs :
        /\ n_x = N_X
        /\ gamma = GammaArg
        /\ tolerance = tol
        /\ eps = EPS_INIT
        /\ transition_counts = m.tc
        /\ reward_counts = m.rc
        /\ transition_probs = RefitProbs(m.tc, InitProbs(N_X))
        /\ reward = RefitReward(m.rc, InitReward(N_X))
        /\ value = v
        /\ state = Absent
        /\ action = 0
        /\ pc = "value_iteration"
        /\ branch = "none"
        /\ last = NoTransition
        /\ resets = 0
        /\ steps = 0
        /\ call = [op |-> "value_iteration", previous |-> v, sweeps |-> 0]

ValueIterationSweep ==
    /\ pc = "value_iteration"
    /\ \E new_value \in {Sweep(transition_probs, reward, value, gamma)} :
          /\ value' = new_value
          /\ pc' = IF Converged(new_value, value, tolerance)
                   THEN "converged" ELSE "value_iteration"
    /\ call' = [call EXCEPT !.previous = value, !.sweeps = @ + 1]
    /\ UNCHANGED <<n_x, gamma, tolerance, eps, transition_counts, transition_probs,
                   reward_counts, reward, state, action, branch, last, resets, steps>>

NextVI == ValueIterationSweep

SpecVI == InitVI /\ [][NextVI]_vars /\ WF_vars(NextVI)

-----------------------------------------------------------------------------
(* Properties of the pure methods, checked under SpecPure *)

\* comparison of two fractions by cross-multiplication
Gt(x, y) == x[1] * y[2] > y[1] * x[2]

Ge(x, y) == x[1] * y[2] >= y[1] * x[2]

\* C1: with isFail = TRUE, get_closest_state_idx returns 0 for every
\* observation, the absent one included.
TerminalOverride ==
    (call.op = "get_closest_state_idx" /\ call.isFail) => call.ind = 0

BestActionDecisionRule ==
    call.op = "best_action" =>
        LET qn == call.score_nothing
            qj == call.score_jump
            qd == call.score_duck
            jump == Gt(qj, qn) /\ Ge(qj, qd)
            duck == Gt(qd, qn) /\ Gt(qd, qj)
        IN  /\ call.action \in {0, 1, 2}
            /\ (call.action = 1) <=> jump
            /\ (call.action = 2) <=> duck
            /\ (call.action = 0) <=> (~jump /\ ~duck)
            /\ ~(jump /\ duck)
            /\ (qn = qj /\ qj = qd) => call.action = 0

\* a jump chosen although the duck scores the same
BestActionWitness ==
    /\ call.op = "best_action"
    /\ call.score_jump = call.score_duck
    /\ Gt(call.score_jump, call.score_nothing)
    /\ call.action = 1

-----------------------------------------------------------------------------
(* Properties of the agent's loop, checked under Spec *)

RECURSIVE FracSumUpTo(_, _)
FracSumUpTo(row, k) == IF k < 0 THEN Zero ELSE FAdd(row[k], FracSumUpTo(row, k - 1))

\* C3: for fixed row-stochastic transition_probs, fixed reward, tolerance > 0
\* and gamma in (0,1), the sweeps started from any value vector reach a sweep
\* whose largest absolute change is below tolerance and then stop; a sweep
\* goes on only after a change of at least tolerance, and every sweep sets
\* value[s] = reward[s] + gamma * max(Q_none(s), Q_jump(s)) with both Q taken
\* on the vector of the sweep before, the duck left out.
ValueIterationTerminates ==
    /\ <>(pc = "converged")
    /\ [](call.op = "value_iteration" /\ call.sweeps > 0 =>
            /\ \A s \in States :
                  LET q_none == Dot(transition_probs[s][0], call.previous)
                      q_jump == Dot(transition_probs[s][1], call.previous)
                      best == IF FLess(q_none, q_jump) THEN q_jump ELSE q_none
                  IN  value[s] = FAdd(reward[s], FMul(gamma, best))
            /\ (pc = "converged") <=>
                  \A s \in States :
                      FLess(FAbs(FSub(value[s], call.previous[s])), tolerance))

\* convergence after four sweeps or more from a vector that is not zero, on
\* estimates where a duck row was refitted
ValueIterationWitness ==
    /\ pc = "converged"
    /\ call.sweeps >= 4
    /\ value[0] # reward[0]
    /\ \E s \in States : RowSum(transition_counts[s][2]) > 0

\* the largest denominator of a row of fractions
LargestDenominator(row) ==
    CHOOSE d \in {row[t][2] : t \in DOMAIN row} : \A t \in DOMAIN row : row[t][2] <= d

\* the exact sum of a row of fractions is 1: on the largest denominator when
\* every denominator divides it, and by adding the fractions otherwise
SumsToOne(row) ==
    LET d == LargestDenominator(row)
    IN  IF \A t \in DOMAIN row : d % row[t][2] = 0
        THEN SumUpTo([t \in DOMAIN row |-> row[t][1] * (d \div row[t][2])],
                     Cardinality(DOMAIN row) - 1) = d
        ELSE FracSumUpTo(row, Cardinality(DOMAIN row) - 1) = <<1, 1>>

\* C2: in every reachable state every row transition_probs[s][a][:] has
\* non-negative entries that sum to exactly 1.
RowStochastic ==
    \A s \in States : \A a \in Actions :
        /\ \A t \in States :
              transition_probs[s][a][t][1] >= 0 /\ transition_probs[s][a][t][2] > 0
        /\ SumsToOne(transition_probs[s][a])

\* a refitted row that is neither uniform nor a point mass
RowStochasticWitness ==
    \E s \in States : \E a \in Actions : \E t \in States :
        /\ RowSum(transition_counts[s][a]) >= 2
        /\ transition_probs[s][a][t][1] > 0
        /\ transition_probs[s][a][t][2] = 2

\* C4: update_mdp_parameters sets every row with a positive total count to
\* counts / total and leaves every row with total count 0 as it was, which is
\* uniform; it sets reward[s] to accumulated reward / visits where visits > 0
\* and leaves it as it was, which is 0, elsewhere.
RefitExact ==
    [][(resets' = resets + 1) =>
        /\ \A s \in States : \A a \in Actions :
              LET total == RowSum(transition_counts[s][a])
              IN  /\ total > 0 =>
                        \A t \in States :
                            transition_probs'[s][a][t][1] * total
                                = transition_counts[s][a][t] * transition_probs'[s][a][t][2]
                  /\ total = 0 =>
                        /\ transition_probs'[s][a] = transition_probs[s][a]
                        /\ \A t \in States : transition_probs'[s][a][t] = <<1, num_states>>
        /\ \A s \in States :
              /\ reward_counts[s][2] > 0 =>
                    reward'[s][1] * reward_counts[s][2] = reward_counts[s][1] * reward'[s][2]
              /\ reward_counts[s][2] = 0 => (reward'[s] = reward[s] /\ reward'[s] = <<0, 1>>)
      ]_vars

\* the transition (1, JUMP, 2) with reward 1 recorded once and refitted
RefitWitness ==
    /\ resets >= 1
    /\ pc = "idle"
    /\ transition_counts[1][1][2] = 1
    /\ RowSum(transition_counts[1][1]) = 1
    /\ transition_probs[1][1][2] = <<1, 1>>
    /\ transition_probs[1][1][0] = <<0, 1>>
    /\ transition_probs[1][2][2] = <<1, num_states>>
    /\ reward_counts[2][2] >= 1
    /\ reward[2] = <<1, 1>>

\* C6: eps is 1.0 at construction and 1.0 + 0.01*N after N resets, and a
\* choose_action made while eps > 1 takes the greedy branch.
EpsilonGrowth ==
    /\ [](eps = EPS_INIT + EPS_STEP * resets)
    /\ [][(pc = "idle" /\ pc' = "acted" /\ eps > EPS_INIT) => branch' = "greedy"]_vars

\* an action chosen after two resets
EpsilonWitness ==
    /\ resets = 2
    /\ eps = 102
    /\ pc = "acted"
    /\ branch = "greedy"

\* C7: a step leaves transition_probs, reward and value unchanged and raises
\* exactly one transition_counts entry by exactly 1; update_mdp_parameters
\* and reset leave the counts and the reward accumulators unchanged; no
\* count ever decreases and the estimates change only in a reset.
LifecycleWriteSets ==
    [][/\ (pc = "idle" /\ pc' = "acted") => UNCHANGED mdp_vars
       /\ (steps' = steps + 1) =>
             /\ UNCHANGED <<transition_probs, reward, value>>
             /\ \E s \in States :
                   /\ \A s2 \in States \ {s} : transition_counts'[s2] = transition_counts[s2]
                   /\ \E a \in Actions :
                         /\ \A a2 \in Actions \ {a} :
                               transition_counts'[s][a2] = transition_counts[s][a2]
                         /\ \E t \in States :
                               /\ transition_counts'[s][a][t] = transition_counts[s][a][t] + 1
                               /\ \A t2 \in States \ {t} :
                                     transition_counts'[s][a][t2] = transition_counts[s][a][t2]
       /\ (resets' = resets + 1) => UNCHANGED <<transition_counts, reward_counts>>
       /\ (resets' = resets) => UNCHANGED <<transition_probs, reward, value>>
       /\ \A s \in States : \A a \in Actions : \A t \in States :
             transition_counts'[s][a][t] >= transition_counts[s][a][t]
      ]_vars

\* a reset made after two recorded transitions has kept both counts
LifecycleWitness ==
    /\ resets >= 1
    /\ steps >= 2
    /\ last.action = 1
    /\ transition_counts[last.s][1][last.new_s] >= 1
    /\ \E s \in States : \E t \in States : transition_counts[s][0][t] >= 1
    /\ value[0] # Zero

\* C8 as stated: no accumulator is negative, the reward sums included.
NonNegativeAccumulators ==
    /\ \A s \in States : \A a \in Actions : \A t \in States : transition_counts[s][a][t] >= 0
    /\ \A s \in States : reward_counts[s][2] >= 0
    /\ \A s \in States : reward_counts[s][1] >= 0

\* C8 as amended: the transition counts and the visit counts are never
\* negative; a reward sum lies between -1000 * visits and 1 * visits.
AccumulatorBounds ==
    /\ \A s \in States : \A a \in Actions : \A t \in States : transition_counts[s][a][t] >= 0
    /\ \A s \in States : reward_counts[s][2] >= 0
    /\ \A s \in States :
          /\ reward_counts[s][1] >= CRASH_REWARD * reward_counts[s][2]
          /\ reward_counts[s][1] <= ALIVE_REWARD * reward_counts[s][2]

\* two crashes into state 0 and a survival elsewhere
AccumulatorWitness ==
    /\ reward_counts[0][2] = 2
    /\ reward_counts[0][1] = 2 * CRASH_REWARD
    /\ \E s \in States : reward_counts[s][1] > 0

\* C10: no transition is ever counted as leaving state 0, so the rows
\* transition_probs[0][a][:] stay uniform through every refit.
FailNeverDeparture ==
    \A a \in Actions : \A t \in States :
        /\ transition_counts[0][a][t] = 0
        /\ transition_probs[0][a][t] = <<1, num_states>>

\* a crash into state 0 was refitted and the next step left from the state
\* of the observation held at the crash
FailDepartureWitness ==
    /\ resets >= 1
    /\ steps >= 2
    /\ transition_probs[2][0][0] = <<1, 1>>
    /\ state.present
    /\ last.s = 2
    /\ last.state.present
    /\ last.action = 1
    /\ transition_counts[2][1][last.new_s] = 1

====
